---- MODULE Spec2Model ----
(***************************************************************************)
(* Model of the transaction engine in src/src/client_accounts.rs,          *)
(* src/src/transaction.rs and src/src/main.rs.                             *)
(*                                                                         *)
(* Money is a rust_decimal::Decimal.  It is modelled as an integer number  *)
(* of ticks, one tick being 0.0001 (the 4-digit input precision).  The     *)
(* f64 amounts carried by records are modelled as the tick count of the    *)
(* decimal text they were parsed from.                                     *)
(***************************************************************************)
EXTENDS Integers, FiniteSets, Sequences, TLC

\* ------------------------------------------------------------------ bounds
MaxSteps == 5
MaxTx == 1
MaxAmount == 1
\* records applied to a book of several clients
MaxBookSteps == 3
\* rows of the input file
MaxSource == 3
\* capacity of the channel (mpsc::channel(2048) in main), scaled down
MaxQueue == 2

\* the accounts of a ClientAccounts do not read or write one another
\* (ClientAccounts::update hands the record to the account of tx.client
\* only), so this specification draws the records of one client
ClientIds == {1}
TxIds == 0..MaxTx
\* amounts of records: f64 values, negative ones included (f64 is signed)
Amounts == (1..MaxAmount) \cup {-1}

\* Option<f64>: None is the empty sequence, Some(a) the sequence <<a>>
None == << >>
Some(a) == <<a>>
\* Option::is_some
IsSome(o) == o # None
\* Option::unwrap, of a Some
Unwrap(o) == o[1]
OptionAmounts == {None} \cup {Some(a) : a \in Amounts}

\* the 15 significant decimal digits Decimal::from_f64 keeps of an f64
F64Digits == 15

\* ------------------------------------------------------ transaction.rs
\* TransactionType values a deserialized record can carry; every label other
\* than the five known ones becomes Unknown(label).
RecordTypes == {"Deposit", "Withdrawal", "Dispute", "Resolve", "Chargeback", "Unknown"}

\* TransactionType: the record types plus FailedWithdrawal, which only the
\* ledger writes into its history.
TransactionType == RecordTypes \cup {"FailedWithdrawal"}

\* the record types whose arm of ClientAccount::update never reads the amount;
\* the records of these types are enumerated without one, as the reader's
\* tests write them (dispute,1,1,)
ReferenceTypes == {"Dispute", "Resolve", "Chargeback"}

\* struct Transaction {typ, client, tx, amount: Option<f64>}
Transaction ==
    [typ : RecordTypes \ ReferenceTypes, client : ClientIds, tx : TxIds,
     amount : OptionAmounts]
    \cup [typ : ReferenceTypes, client : ClientIds, tx : TxIds, amount : {None}]

\* struct TransactionHistoryRecord {typ, amount}
TransactionHistoryRecord(typ, amount) == [typ |-> typ, amount |-> amount]

\* ------------------------------------------------------ rust_decimal
RECURSIVE Pow10(_)
Pow10(n) == IF n = 0 THEN 1 ELSE 10 * Pow10(n - 1)

Abs(x) == IF x < 0 THEN -x ELSE x

\* number of decimal digits of a non-negative integer
RECURSIVE NumDigits(_)
NumDigits(n) == IF n < 10 THEN 1 ELSE 1 + NumDigits(n \div 10)

\* mutant of DecimalFromF64: the last tick of the amount is lost (the
\* value is truncated to an even number of ticks)
DecimalFromF64_LosesTick(x) ==
    IF x < 0 THEN -((Abs(x) \div 2) * 2) ELSE (x \div 2) * 2

\* Decimal::from_f64(x).unwrap(): the decimal nearest to the f64, kept to
\* F64Digits significant digits (excess digits are rounded away, half up in
\* magnitude).
DecimalFromF64(x) ==
    LET d == NumDigits(Abs(x))
        p == IF d > F64Digits THEN Pow10(d - F64Digits) ELSE 1
        r == ((Abs(x) + (p \div 2)) \div p) * p
    IN  IF x < 0 THEN -r ELSE r

\* Decimal::max
DecimalMax(a, b) == IF a >= b THEN a ELSE b

\* ------------------------------------------------------ ClientAccount
\* ClientAccount::new
ClientAccountNew(id) ==
    [id |-> id,
     disputed |-> {},
     total |-> 0,
     locked |-> FALSE,
     transaction_history |-> << >>]

\* mutant of HeldOver: disputed withdrawals are held as well
RECURSIVE HeldOver_CountsWithdrawals(_, _)
HeldOver_CountsWithdrawals(acct, ids) ==
    IF ids = {} THEN 0
    ELSE LET txid == CHOOSE t \in ids : TRUE
             rest == HeldOver_CountsWithdrawals(acct, ids \ {txid})
         IN  IF txid \in DOMAIN acct.transaction_history
                /\ acct.transaction_history[txid].typ \in {"Deposit", "Withdrawal"}
             THEN rest + DecimalFromF64(acct.transaction_history[txid].amount)
             ELSE rest

\* the loop of ClientAccount::held over a set of disputed ids
RECURSIVE HeldOver(_, _)
HeldOver(acct, ids) ==
    IF ids = {} THEN 0
    ELSE LET txid == CHOOSE t \in ids : TRUE
             rest == HeldOver(acct, ids \ {txid})
         IN  IF txid \in DOMAIN acct.transaction_history
                /\ acct.transaction_history[txid].typ = "Deposit"
             THEN rest + DecimalFromF64(acct.transaction_history[txid].amount)
             ELSE rest

\* ClientAccount::held
held(acct) == HeldOver(acct, acct.disputed)

\* mutant of available: the difference is not clamped at zero
available_Unclamped(acct) == acct.total - held(acct)

\* ClientAccount::available
available(acct) ==
    LET res == acct.total - held(acct)
    IN  DecimalMax(res, 0)

\* HashMap::insert
MapInsert(m, k, v) == [x \in DOMAIN m \cup {k} |-> IF x = k THEN v ELSE m[x]]

\* mutant of DepositArm: total is overwritten with the amount
DepositArm_OverwritesTotal(acct, tx) ==
    [acct EXCEPT
        !.total = DecimalFromF64(Unwrap(tx.amount)),
        !.transaction_history =
            MapInsert(acct.transaction_history, tx.tx,
                      TransactionHistoryRecord(tx.typ, Unwrap(tx.amount)))]

\* ClientAccount::update, arm Deposit (guard already passed)
DepositArm(acct, tx) ==
    [acct EXCEPT
        !.total = acct.total + DecimalFromF64(Unwrap(tx.amount)),
        !.transaction_history =
            MapInsert(acct.transaction_history, tx.tx,
                      TransactionHistoryRecord(tx.typ, Unwrap(tx.amount)))]

\* mutant of WithdrawalArm: the funds check is strict (> instead of >=)
WithdrawalArm_StrictCheck(acct, tx) ==
    LET tx_amount == DecimalFromF64(Unwrap(tx.amount))
    IN  IF available(acct) - tx_amount > 0
        THEN [acct EXCEPT
                !.total = acct.total - tx_amount,
                !.transaction_history =
                    MapInsert(acct.transaction_history, tx.tx,
                              TransactionHistoryRecord(tx.typ, Unwrap(tx.amount)))]
        ELSE [acct EXCEPT
                !.transaction_history =
                    MapInsert(acct.transaction_history, tx.tx,
                              TransactionHistoryRecord("FailedWithdrawal", Unwrap(tx.amount)))]

\* mutant of WithdrawalArm: a rejected withdrawal is not recorded
WithdrawalArm_DropsRejected(acct, tx) ==
    LET tx_amount == DecimalFromF64(Unwrap(tx.amount))
    IN  IF available(acct) - tx_amount >= 0
        THEN [acct EXCEPT
                !.total = acct.total - tx_amount,
                !.transaction_history =
                    MapInsert(acct.transaction_history, tx.tx,
                              TransactionHistoryRecord(tx.typ, Unwrap(tx.amount)))]
        ELSE acct

\* ClientAccount::update, arm Withdrawal (guard already passed)
WithdrawalArm(acct, tx) ==
    LET tx_amount == DecimalFromF64(Unwrap(tx.amount))
    IN  IF available(acct) - tx_amount >= 0
        THEN [acct EXCEPT
                !.total = acct.total - tx_amount,
                !.transaction_history =
                    MapInsert(acct.transaction_history, tx.tx,
                              TransactionHistoryRecord(tx.typ, Unwrap(tx.amount)))]
        ELSE [acct EXCEPT
                !.transaction_history =
                    MapInsert(acct.transaction_history, tx.tx,
                              TransactionHistoryRecord("FailedWithdrawal", Unwrap(tx.amount)))]

\* mutant of DisputeArm: the id is not looked up in the history
DisputeArm_NoHistoryCheck(acct, tx) ==
    [acct EXCEPT !.disputed = acct.disputed \cup {tx.tx}]

\* mutant of DisputeArm: the lookup is inverted (is_none for is_some)
DisputeArm_InvertedCheck(acct, tx) ==
    IF tx.tx \notin DOMAIN acct.transaction_history
    THEN [acct EXCEPT !.disputed = acct.disputed \cup {tx.tx}]
    ELSE acct

\* mutant of DisputeArm: only Deposit entries can be disputed
DisputeArm_DepositsOnly(acct, tx) ==
    IF tx.tx \in DOMAIN acct.transaction_history
       /\ acct.transaction_history[tx.tx].typ = "Deposit"
    THEN [acct EXCEPT !.disputed = acct.disputed \cup {tx.tx}]
    ELSE acct

\* ClientAccount::update, arm Dispute
DisputeArm(acct, tx) ==
    IF tx.tx \in DOMAIN acct.transaction_history
    THEN [acct EXCEPT !.disputed = acct.disputed \cup {tx.tx}]
    ELSE acct

\* mutant of ResolveArm: resolving a dispute lifts the lock
ResolveArm_Unlocks(acct, tx) ==
    [acct EXCEPT !.disputed = acct.disputed \ {tx.tx}, !.locked = FALSE]

\* mutant of ResolveArm: every dispute is dropped (clear for remove)
ResolveArm_ClearsAll(acct, tx) ==
    [acct EXCEPT !.disputed = {}]

\* mutant of ResolveArm: the resolve is ignored
ResolveArm_Ignored(acct, tx) == acct

\* ClientAccount::update, arm Resolve
ResolveArm(acct, tx) ==
    [acct EXCEPT !.disputed = acct.disputed \ {tx.tx}]

\* mutant of ChargebackArm: the charged back entry is taken out of the history
ChargebackArm_RemovesEntry(acct, tx) ==
    IF tx.tx \in DOMAIN acct.transaction_history
    THEN LET history == acct.transaction_history[tx.tx]
             amt == DecimalFromF64(history.amount)
         IN  [acct EXCEPT
                !.disputed = acct.disputed \ {tx.tx},
                !.locked = TRUE,
                !.total = CASE history.typ = "Deposit" -> acct.total - amt
                            [] history.typ = "Withdrawal" -> acct.total + amt
                            [] OTHER -> acct.total,
                !.transaction_history =
                    [t \in DOMAIN acct.transaction_history \ {tx.tx} |->
                        acct.transaction_history[t]]]
    ELSE acct

\* mutant of ChargebackArm: a rejected withdrawal is credited like an
\* accepted one
ChargebackArm_CreditsFailed(acct, tx) ==
    IF tx.tx \in DOMAIN acct.transaction_history
    THEN LET history == acct.transaction_history[tx.tx]
             amt == DecimalFromF64(history.amount)
         IN  [acct EXCEPT
                !.disputed = acct.disputed \ {tx.tx},
                !.locked = TRUE,
                !.total = CASE history.typ = "Deposit" -> acct.total - amt
                            [] history.typ \in {"Withdrawal", "FailedWithdrawal"} ->
                                 acct.total + amt
                            [] OTHER -> acct.total]
    ELSE acct

\* mutant of ChargebackArm: a charged back Deposit is debited twice
ChargebackArm_DebitsTwice(acct, tx) ==
    IF tx.tx \in DOMAIN acct.transaction_history
    THEN LET history == acct.transaction_history[tx.tx]
             amt == DecimalFromF64(history.amount)
         IN  [acct EXCEPT
                !.disputed = acct.disputed \ {tx.tx},
                !.locked = TRUE,
                !.total = CASE history.typ = "Deposit" -> acct.total - amt - amt
                            [] history.typ = "Withdrawal" -> acct.total + amt
                            [] OTHER -> acct.total]
    ELSE acct

\* mutant of ChargebackArm: the account is not locked
ChargebackArm_NoLock(acct, tx) ==
    IF tx.tx \in DOMAIN acct.transaction_history
    THEN LET history == acct.transaction_history[tx.tx]
             amt == DecimalFromF64(history.amount)
         IN  [acct EXCEPT
                !.disputed = acct.disputed \ {tx.tx},
                !.total = CASE history.typ = "Deposit" -> acct.total - amt
                            [] history.typ = "Withdrawal" -> acct.total + amt
                            [] OTHER -> acct.total]
    ELSE acct

\* mutant of ChargebackArm: a charged back Withdrawal is not credited
ChargebackArm_NoWithdrawalCredit(acct, tx) ==
    IF tx.tx \in DOMAIN acct.transaction_history
    THEN LET history == acct.transaction_history[tx.tx]
             amt == DecimalFromF64(history.amount)
         IN  [acct EXCEPT
                !.disputed = acct.disputed \ {tx.tx},
                !.locked = TRUE,
                !.total = CASE history.typ = "Deposit" -> acct.total - amt
                            [] OTHER -> acct.total]
    ELSE acct

\* ClientAccount::update, arm Chargeback (guard already passed)
ChargebackArm(acct, tx) ==
    IF tx.tx \in DOMAIN acct.transaction_history
    THEN LET history == acct.transaction_history[tx.tx]
             amt == DecimalFromF64(history.amount)
         IN  [acct EXCEPT
                !.disputed = acct.disputed \ {tx.tx},
                !.locked = TRUE,
                !.total = CASE history.typ = "Deposit" -> acct.total - amt
                            [] history.typ = "Withdrawal" -> acct.total + amt
                            [] OTHER -> acct.total]
    ELSE acct

\* mutant of ClientAccountUpdate: a record of unknown type that carries an
\* amount is applied as a deposit
ClientAccountUpdate_UnknownDeposits(acct, tx) ==
    CASE tx.typ \in {"Deposit", "Unknown"}
           /\ tx.tx \notin DOMAIN acct.transaction_history
           /\ IsSome(tx.amount) -> DepositArm(acct, tx)
      [] tx.typ = "Withdrawal"
           /\ tx.tx \notin DOMAIN acct.transaction_history
           /\ IsSome(tx.amount) -> WithdrawalArm(acct, tx)
      [] tx.typ = "Dispute" -> DisputeArm(acct, tx)
      [] tx.typ = "Resolve" -> ResolveArm(acct, tx)
      [] tx.typ = "Chargeback" /\ tx.tx \in acct.disputed -> ChargebackArm(acct, tx)
      [] OTHER -> acct

\* mutant of ClientAccountUpdate: the Deposit arm does not look for the id
\* in the history
ClientAccountUpdate_NoDuplicateCheck(acct, tx) ==
    CASE tx.typ = "Deposit"
           /\ IsSome(tx.amount) -> DepositArm(acct, tx)
      [] tx.typ = "Withdrawal"
           /\ tx.tx \notin DOMAIN acct.transaction_history
           /\ IsSome(tx.amount) -> WithdrawalArm(acct, tx)
      [] tx.typ = "Dispute" -> DisputeArm(acct, tx)
      [] tx.typ = "Resolve" -> ResolveArm(acct, tx)
      [] tx.typ = "Chargeback" /\ tx.tx \in acct.disputed -> ChargebackArm(acct, tx)
      [] OTHER -> acct

\* variant: a locked account rejects every record
ClientAccountUpdate_LockedRejects(acct, tx) ==
    IF acct.locked
    THEN acct
    ELSE CASE tx.typ = "Deposit"
                /\ tx.tx \notin DOMAIN acct.transaction_history
                /\ IsSome(tx.amount) -> DepositArm(acct, tx)
           [] tx.typ = "Withdrawal"
                /\ tx.tx \notin DOMAIN acct.transaction_history
                /\ IsSome(tx.amount) -> WithdrawalArm(acct, tx)
           [] tx.typ = "Dispute" -> DisputeArm(acct, tx)
           [] tx.typ = "Resolve" -> ResolveArm(acct, tx)
           [] tx.typ = "Chargeback" /\ tx.tx \in acct.disputed -> ChargebackArm(acct, tx)
           [] OTHER -> acct

\* variant: a Deposit or Withdrawal without amount is recorded with amount 0
ClientAccountUpdate_NoneConsumesId(acct, tx) ==
    CASE tx.typ \in {"Deposit", "Withdrawal"}
           /\ tx.tx \notin DOMAIN acct.transaction_history
           /\ ~IsSome(tx.amount) ->
             [acct EXCEPT !.transaction_history =
                 MapInsert(@, tx.tx, TransactionHistoryRecord(tx.typ, 0))]
      [] tx.typ = "Deposit"
           /\ tx.tx \notin DOMAIN acct.transaction_history
           /\ IsSome(tx.amount) -> DepositArm(acct, tx)
      [] tx.typ = "Withdrawal"
           /\ tx.tx \notin DOMAIN acct.transaction_history
           /\ IsSome(tx.amount) -> WithdrawalArm(acct, tx)
      [] tx.typ = "Dispute" -> DisputeArm(acct, tx)
      [] tx.typ = "Resolve" -> ResolveArm(acct, tx)
      [] tx.typ = "Chargeback" /\ tx.tx \in acct.disputed -> ChargebackArm(acct, tx)
      [] OTHER -> acct

\* ClientAccount::update: the match on tx.typ, arms tried in source order
ClientAccountUpdate(acct, tx) ==
    CASE tx.typ = "Deposit"
           /\ tx.tx \notin DOMAIN acct.transaction_history
           /\ IsSome(tx.amount) -> DepositArm(acct, tx)
      [] tx.typ = "Withdrawal"
           /\ tx.tx \notin DOMAIN acct.transaction_history
           /\ IsSome(tx.amount) -> WithdrawalArm(acct, tx)
      [] tx.typ = "Dispute" -> DisputeArm(acct, tx)
      [] tx.typ = "Resolve" -> ResolveArm(acct, tx)
      [] tx.typ = "Chargeback" /\ tx.tx \in acct.disputed -> ChargebackArm(acct, tx)
      [] OTHER -> acct

\* ------------------------------------------------------ ClientAccounts
\* ClientAccounts::new
ClientAccountsNew == << >>

\* variant: every record gets a new account, which replaces the stored one
ClientAccountsUpdate_Replaces(m, tx) ==
    LET acct == ClientAccountUpdate(ClientAccountNew(tx.client), tx)
    IN  MapInsert(m, acct.id, acct)

\* variant: the record is applied to every stored account
ClientAccountsUpdate_Broadcast(m, tx) ==
    [c \in DOMAIN m \cup {tx.client} |->
        ClientAccountUpdate(IF c \in DOMAIN m THEN m[c] ELSE ClientAccountNew(c), tx)]

\* ClientAccounts::update
ClientAccountsUpdate(m, tx) ==
    IF tx.client \notin DOMAIN m
    THEN LET acct == ClientAccountUpdate(ClientAccountNew(tx.client), tx)
         IN  MapInsert(m, acct.id, acct)
    ELSE [m EXCEPT ![tx.client] = ClientAccountUpdate(m[tx.client], tx)]

\* ------------------------------------------------------ export
\* the header record write_csv writes first
CsvHeader == <<"id", "available", "held", "total", "locked">>

\* variant: the available column repeats the total
Serialize_TotalAsAvailable(acct) ==
    <<acct.id, acct.total, held(acct), acct.total, acct.locked>>

\* impl Serialize for ClientAccount: the five elements of an account's row
Serialize(acct) == <<acct.id, available(acct), held(acct), acct.total, acct.locked>>

\* what nothing has been written to yet
NoOutput == [header |-> << >>, rows |-> {}]

\* ClientAccounts::write_csv: the header, then one serialized row per entry
\* of the map (the map is iterated in no particular order: the rows are a set)
WriteCsv(m) == [header |-> CsvHeader, rows |-> {Serialize(m[c]) : c \in DOMAIN m}]

\* ------------------------------------------------------ state
VARIABLES
    map,          \* ClientAccounts.map: client id -> ClientAccount
    message,      \* the record the consumer loop received last (main.rs:69)
    steps,        \* number of records applied so far
    chargedBack,  \* history variable: <<client, tx>> pairs a Chargeback took effect on
    output,       \* what write_csv has written to the standard output
    exports,      \* number of calls of write_csv
    source,       \* the rows of the input file the producer has read so far
    pending,      \* the record the producer is sending (main.rs:57)
    queue,        \* the records in the mpsc channel
    ppc,          \* where the producer task is: open, read, send, done, panicked
    cpc,          \* where the consumer (main) is: recv, export, exited
    applied       \* history variable: the records clients.update was called with

ledgerVars == <<map, message, steps, chargedBack>>
exportVars == <<output, exports>>
pipeVars == <<source, pending, queue, ppc, cpc, applied>>
vars == <<map, message, steps, chargedBack, output, exports,
          source, pending, queue, ppc, cpc, applied>>

NoMessage == [typ |-> "NoMessage", client |-> 0, tx |-> 0, amount |-> None]

Init ==
    /\ map = ClientAccountsNew
    /\ message = NoMessage
    /\ steps = 0
    /\ chargedBack = {}
    /\ output = NoOutput
    /\ exports = 0
    /\ source = << >>
    /\ pending = NoMessage
    /\ queue = << >>
    /\ ppc = "open"
    /\ cpc = "recv"
    /\ applied = << >>

\* the account a record for client c is applied to: the stored one, or the
\* fresh one ClientAccounts::update creates
AccountOf(m, c) == IF c \in DOMAIN m THEN m[c] ELSE ClientAccountNew(c)

\* the Chargeback arm of ClientAccount::update runs its body for tx
ChargebackTakesEffect(m, tx) ==
    /\ tx.typ = "Chargeback"
    /\ tx.tx \in AccountOf(m, tx.client).disputed
    /\ tx.tx \in DOMAIN AccountOf(m, tx.client).transaction_history

\* one iteration of the consumer loop: receive a record, clients.update(it)
Update(tx) ==
    /\ steps < MaxSteps
    /\ map' = ClientAccountsUpdate(map, tx)
    /\ message' = tx
    /\ steps' = steps + 1
    /\ chargedBack' = IF ChargebackTakesEffect(map, tx)
                      THEN chargedBack \cup {<<tx.client, tx.tx>>}
                      ELSE chargedBack
    /\ UNCHANGED exportVars
    /\ UNCHANGED pipeVars

Next == \E tx \in Transaction : Update(tx)

Spec == Init /\ [][Next]_vars

\* the records whose amount, when there is one, is not negative
NonNegTransaction == {tx \in Transaction : IsSome(tx.amount) => Unwrap(tx.amount) >= 0}

NextNonNeg == \E tx \in NonNegTransaction : Update(tx)

\* the consumer loop fed records with non-negative amounts only
SpecNonNeg == Init /\ [][NextNonNeg]_vars

\* ------------------------------------------------------ a book of two clients
\* ClientAccounts used as its tests use it: records of several clients,
\* then write_csv
BookClientIds == {1, 2}
BookTxIds == {0, 1}

BookTransaction ==
    {tx \in [typ : RecordTypes, client : BookClientIds, tx : BookTxIds,
             amount : {None, Some(1)}] :
        tx.typ \in ReferenceTypes \cup {"Unknown"} => tx.amount = None}

\* clients.update(tx), while the book has not been moved into write_csv
BookUpdate(tx) ==
    /\ exports = 0
    /\ steps < MaxBookSteps
    /\ Update(tx)

\* clients.write_csv(stdout): takes the book by value, so it runs once and
\* no record is applied after it
BookExport ==
    /\ exports = 0
    /\ output' = WriteCsv(map)
    /\ exports' = exports + 1
    /\ UNCHANGED ledgerVars
    /\ UNCHANGED pipeVars

BookNext ==
    \/ \E tx \in BookTransaction : BookUpdate(tx)
    \/ BookExport

BookSpec == Init /\ [][BookNext]_vars

\* ------------------------------------------------------ the pipeline of main
\* a row of the input file that does not deserialize to a Transaction
Malformed == [typ |-> "Malformed", client |-> 0, tx |-> 0, amount |-> None]

\* the rows that do: a deposit, a withdrawal, and a dispute and a chargeback
\* of the deposit
PipeRecords ==
    {[typ |-> "Deposit", client |-> 1, tx |-> 0, amount |-> Some(1)],
     [typ |-> "Withdrawal", client |-> 1, tx |-> 1, amount |-> Some(1)],
     [typ |-> "Dispute", client |-> 1, tx |-> 0, amount |-> None],
     [typ |-> "Chargeback", client |-> 1, tx |-> 0, amount |-> None]}

PipeRows == PipeRecords \cup {Malformed}

\* the rows of a file for which rdr.deserialize() yields Ok, in file order
WellFormed(rows) == SelectSeq(rows, LAMBDA r : r # Malformed)

\* from_path(file_path) returns Ok: the producer starts its for loop
ProducerOpen ==
    /\ ppc = "open"
    /\ ppc' = "read"
    /\ UNCHANGED <<source, pending, queue, cpc, applied>>
    /\ UNCHANGED ledgerVars
    /\ UNCHANGED exportVars

\* from_path(file_path) returns Err: unwrap panics, the task ends and its
\* Sender is dropped
ProducerOpenFails ==
    /\ ppc = "open"
    /\ ppc' = "panicked"
    /\ UNCHANGED <<source, pending, queue, cpc, applied>>
    /\ UNCHANGED ledgerVars
    /\ UNCHANGED exportVars

\* the for loop gets the next row: a record goes on to tx.send, a row that
\* fails to deserialize is reported and the loop goes on
ProducerRead(row) ==
    /\ ppc = "read"
    /\ Len(source) < MaxSource
    /\ source' = Append(source, row)
    /\ IF row = Malformed
       THEN pending' = pending /\ ppc' = "read"
       ELSE pending' = row /\ ppc' = "send"
    /\ UNCHANGED <<queue, cpc, applied>>
    /\ UNCHANGED ledgerVars
    /\ UNCHANGED exportVars

\* the file has no more rows: the loop ends, the task ends and its Sender is
\* dropped
ProducerEof ==
    /\ ppc = "read"
    /\ ppc' = "done"
    /\ UNCHANGED <<source, pending, queue, cpc, applied>>
    /\ UNCHANGED ledgerVars
    /\ UNCHANGED exportVars

\* variant: the channel has no capacity limit
ProducerSend_Unbounded ==
    /\ ppc = "send"
    /\ queue' = Append(queue, pending)
    /\ pending' = NoMessage
    /\ ppc' = "read"
    /\ UNCHANGED <<source, cpc, applied>>
    /\ UNCHANGED ledgerVars
    /\ UNCHANGED exportVars

\* variant: a record that finds the channel full is dropped (try_send)
ProducerSend_DropsWhenFull ==
    /\ ppc = "send"
    /\ IF cpc = "exited" \/ Len(queue) >= MaxQueue
       THEN queue' = queue
       ELSE queue' = Append(queue, pending)
    /\ pending' = NoMessage
    /\ ppc' = "read"
    /\ UNCHANGED <<source, cpc, applied>>
    /\ UNCHANGED ledgerVars
    /\ UNCHANGED exportVars

\* tx.send(record).await completes: with the Receiver alive, once the
\* channel has room for the record; with the Receiver gone, at once with
\* Err, which is reported and the record is lost
ProducerSend ==
    /\ ppc = "send"
    /\ IF cpc = "exited"
       THEN queue' = queue
       ELSE /\ Len(queue) < MaxQueue
            /\ queue' = Append(queue, pending)
    /\ pending' = NoMessage
    /\ ppc' = "read"
    /\ UNCHANGED <<source, cpc, applied>>
    /\ UNCHANGED ledgerVars
    /\ UNCHANGED exportVars

\* variant: the consumer takes the newest record of the channel
ConsumerRecv_Lifo ==
    /\ cpc = "recv"
    /\ queue # << >>
    /\ map' = ClientAccountsUpdate(map, queue[Len(queue)])
    /\ message' = queue[Len(queue)]
    /\ steps' = steps + 1
    /\ chargedBack' = IF ChargebackTakesEffect(map, queue[Len(queue)])
                      THEN chargedBack \cup {<<queue[Len(queue)].client, queue[Len(queue)].tx>>}
                      ELSE chargedBack
    /\ queue' = SubSeq(queue, 1, Len(queue) - 1)
    /\ applied' = Append(applied, queue[Len(queue)])
    /\ UNCHANGED <<source, pending, ppc, cpc>>
    /\ UNCHANGED exportVars

\* rx.recv().await returns Some(message): the oldest record of the channel,
\* which clients.update is called with
ConsumerRecv ==
    /\ cpc = "recv"
    /\ queue # << >>
    /\ map' = ClientAccountsUpdate(map, Head(queue))
    /\ message' = Head(queue)
    /\ steps' = steps + 1
    /\ chargedBack' = IF ChargebackTakesEffect(map, Head(queue))
                      THEN chargedBack \cup {<<Head(queue).client, Head(queue).tx>>}
                      ELSE chargedBack
    /\ queue' = Tail(queue)
    /\ applied' = Append(applied, Head(queue))
    /\ UNCHANGED <<source, pending, ppc, cpc>>
    /\ UNCHANGED exportVars

\* variant: the consumer leaves its loop as soon as the channel is empty
ConsumerClosed_Early ==
    /\ cpc = "recv"
    /\ queue = << >>
    /\ cpc' = "export"
    /\ UNCHANGED <<source, pending, queue, ppc, applied>>
    /\ UNCHANGED ledgerVars
    /\ UNCHANGED exportVars

\* rx.recv().await returns None: the channel is empty and the Sender was
\* dropped, by the end of the producer task or by its panic
ConsumerClosed ==
    /\ cpc = "recv"
    /\ queue = << >>
    /\ ppc \in {"done", "panicked"}
    /\ cpc' = "export"
    /\ UNCHANGED <<source, pending, queue, ppc, applied>>
    /\ UNCHANGED ledgerVars
    /\ UNCHANGED exportVars

\* clients.write_csv(stdout), then main returns
ConsumerExport ==
    /\ cpc = "export"
    /\ output' = WriteCsv(map)
    /\ exports' = exports + 1
    /\ cpc' = "exited"
    /\ UNCHANGED <<source, pending, queue, ppc, applied>>
    /\ UNCHANGED ledgerVars

Producer ==
    \/ ProducerOpen
    \/ ProducerOpenFails
    \/ \E row \in PipeRows : ProducerRead(row)
    \/ ProducerEof
    \/ ProducerSend

Consumer ==
    \/ ConsumerRecv
    \/ ConsumerClosed
    \/ ConsumerExport

PipeNext == Producer \/ Consumer

\* main: the producer task and the consumer loop, in any interleaving
PipeSpec == Init /\ [][PipeNext]_vars

\* the runtime polls every task that can make progress: the producer task
\* and main each take their next step eventually
FairPipeSpec == Init /\ [][PipeNext]_vars /\ WF_vars(Producer) /\ WF_vars(Consumer)

\* ------------------------------------------------------ claim vocabulary
\* the record applied by the step, the account it was applied to (before the
\* step) and that account after the step
Rec == message'
PreAcct == AccountOf(map, message'.client)
PostAcct == map'[message'.client]

\* the step applied a record of type typ
Applied(typ) == steps' = steps + 1 /\ message'.typ = typ

\* the step applied a Deposit or a Withdrawal
AppliedDepositOrWithdrawal == Applied("Deposit") \/ Applied("Withdrawal")

\* the id of the applied record is not yet / already a key of the history
NewId == Rec.tx \notin DOMAIN PreAcct.transaction_history
KnownId == Rec.tx \in DOMAIN PreAcct.transaction_history

\* sum of the amounts of the history entries under the ids of a set
RECURSIVE SumAmounts(_, _)
SumAmounts(h, ids) ==
    IF ids = {} THEN 0
    ELSE LET t == CHOOSE x \in ids : TRUE
         IN  h[t].amount + SumAmounts(h, ids \ {t})

\* held as the specification defines it: the disputed ids whose entry is a Deposit
DisputedDeposits(acct) ==
    {t \in DOMAIN acct.transaction_history :
        t \in acct.disputed /\ acct.transaction_history[t].typ = "Deposit"}
SpecHeld(acct) == SumAmounts(acct.transaction_history, DisputedDeposits(acct))

\* available as the specification defines it: max(total - held, 0)
SpecAvailable(acct) ==
    IF acct.total - SpecHeld(acct) > 0 THEN acct.total - SpecHeld(acct) ELSE 0

\* the history h with one more entry
WithEntry(h, id, typ, amount) ==
    [t \in DOMAIN h \cup {id} |->
        IF t = id THEN [typ |-> typ, amount |-> amount] ELSE h[t]]

\* the account the last record went to (state level)
LastAcct == map[message.client]
LastOnKnownId ==
    /\ message.client \in DOMAIN map
    /\ message.tx \in DOMAIN LastAcct.transaction_history
LastEntry == LastAcct.transaction_history[message.tx]

\* ------------------------------------------------------ C1
\* C1: a Withdrawal with a new id and available - amount >= 0 (available =
\* max(total - held, 0) before the record) decreases total by exactly amount
\* and inserts the entry {Withdrawal, amount} under the id; disputed and
\* locked are unchanged.
C1_WithdrawalAccepted ==
    [][(/\ Applied("Withdrawal")
        /\ IsSome(Rec.amount)
        /\ NewId
        /\ SpecAvailable(PreAcct) - Unwrap(Rec.amount) >= 0)
       => /\ PostAcct.total = PreAcct.total - Unwrap(Rec.amount)
          /\ PostAcct.transaction_history =
                WithEntry(PreAcct.transaction_history, Rec.tx,
                          "Withdrawal", Unwrap(Rec.amount))
          /\ PostAcct.disputed = PreAcct.disputed
          /\ PostAcct.locked = PreAcct.locked]_vars

\* a withdrawal of all the available funds was accepted while another id is
\* in the history
C1_Witness ==
    /\ message.typ = "Withdrawal"
    /\ steps = 2
    /\ LastOnKnownId
    /\ LastEntry.typ = "Withdrawal"
    /\ LastEntry.amount = MaxAmount
    /\ LastAcct.total = 0

\* ------------------------------------------------------ C2
\* C2: a Withdrawal with a new id whose amount exceeds available leaves total,
\* disputed and locked unchanged and inserts {FailedWithdrawal, amount}; a
\* later Withdrawal or Deposit with that id is a no-op, also when the funds
\* have become sufficient.
C2_WithdrawalRejectedNeverRetried ==
    [][/\ (/\ Applied("Withdrawal")
           /\ IsSome(Rec.amount)
           /\ NewId
           /\ Unwrap(Rec.amount) > SpecAvailable(PreAcct))
          => /\ PostAcct.total = PreAcct.total
             /\ PostAcct.disputed = PreAcct.disputed
             /\ PostAcct.locked = PreAcct.locked
             /\ PostAcct.transaction_history =
                   WithEntry(PreAcct.transaction_history, Rec.tx,
                             "FailedWithdrawal", Unwrap(Rec.amount))
       /\ (/\ AppliedDepositOrWithdrawal
           /\ KnownId
           /\ PreAcct.transaction_history[Rec.tx].typ = "FailedWithdrawal")
          => PostAcct = PreAcct]_vars

\* a rejected withdrawal was sent again after the dispute that held the funds
\* was resolved: the funds now suffice and the entry is still FailedWithdrawal
C2_Witness ==
    /\ message.typ = "Withdrawal"
    /\ IsSome(message.amount)
    /\ LastOnKnownId
    /\ LastEntry = [typ |-> "FailedWithdrawal", amount |-> Unwrap(message.amount)]
    /\ LastAcct.disputed = {}
    /\ LastAcct.total - Unwrap(message.amount) >= 0
    /\ Unwrap(message.amount) > 0

\* ------------------------------------------------------ C3
\* C3: a Deposit or Withdrawal whose id is already a key of the history
\* (entry of any type) leaves total, locked, history and disputed unchanged.
C3_DuplicateIdIsNoOp ==
    [][(AppliedDepositOrWithdrawal /\ KnownId)
       => /\ PostAcct.total = PreAcct.total
          /\ PostAcct.locked = PreAcct.locked
          /\ PostAcct.transaction_history = PreAcct.transaction_history
          /\ PostAcct.disputed = PreAcct.disputed]_vars

\* a Deposit arrived under the id of an accepted Withdrawal
C3_Witness ==
    /\ message.typ = "Deposit"
    /\ IsSome(message.amount)
    /\ LastOnKnownId
    /\ LastEntry.typ = "Withdrawal"

\* ------------------------------------------------------ C4
\* C4: a Deposit with an amount and a new id increases total by exactly
\* amount and inserts {Deposit, amount} under the id; disputed and locked are
\* unchanged.
C4_DepositApplied ==
    [][(Applied("Deposit") /\ IsSome(Rec.amount) /\ NewId)
       => /\ PostAcct.total = PreAcct.total + Unwrap(Rec.amount)
          /\ PostAcct.transaction_history =
                WithEntry(PreAcct.transaction_history, Rec.tx,
                          "Deposit", Unwrap(Rec.amount))
          /\ PostAcct.disputed = PreAcct.disputed
          /\ PostAcct.locked = PreAcct.locked]_vars

\* a second deposit was added to the first
C4_Witness ==
    /\ message.typ = "Deposit"
    /\ steps = 2
    /\ LastOnKnownId
    /\ LastEntry = [typ |-> "Deposit", amount |-> MaxAmount]
    /\ LastAcct.total = MaxAmount + 1

\* ------------------------------------------------------ C5
\* C5: in every reachable state held is the sum of the amounts of exactly the
\* disputed ids whose history entry is a Deposit, and a Dispute applied to the
\* id of a Withdrawal entry changes neither held nor available.
C5_HeldCountsDisputedDepositsOnly ==
    /\ [](\A c \in DOMAIN map : held(map[c]) = SpecHeld(map[c]))
    /\ [][(/\ Applied("Dispute")
           /\ KnownId
           /\ PreAcct.transaction_history[Rec.tx].typ = "Withdrawal")
          => /\ held(PostAcct) = held(PreAcct)
             /\ available(PostAcct) = available(PreAcct)]_vars

\* a Withdrawal was disputed while a Deposit is in dispute: only the deposit
\* is held
C5_Witness ==
    /\ message.typ = "Dispute"
    /\ LastOnKnownId
    /\ LastEntry.typ = "Withdrawal"
    /\ message.tx \in LastAcct.disputed
    /\ Cardinality(LastAcct.disputed) = 2
    /\ held(LastAcct) = MaxAmount
    /\ LastEntry.amount = 1

\* ------------------------------------------------------ C6
\* C6: in every reachable state available is never negative, equals
\* total - held whenever total >= held, and is 0 whenever held exceeds total.
C6_AvailableIsClampedDifference ==
    \A c \in DOMAIN map :
        /\ available(map[c]) >= 0
        /\ map[c].total >= SpecHeld(map[c])
              => available(map[c]) = map[c].total - SpecHeld(map[c])
        /\ SpecHeld(map[c]) > map[c].total => available(map[c]) = 0

\* a deposit was withdrawn and then disputed: held exceeds total
C6_Witness ==
    \E c \in DOMAIN map :
        /\ map[c].total = 0
        /\ held(map[c]) = MaxAmount
        /\ available(map[c]) = 0
        /\ ~map[c].locked

\* ------------------------------------------------------ C7
\* C7: a Dispute whose id is a key of the history (entry of any type) puts the
\* id into disputed and leaves total, locked and history unchanged; on an id
\* already disputed it leaves the whole account unchanged.
C7_DisputeMarksKnownId ==
    [][/\ (Applied("Dispute") /\ KnownId)
          => /\ PostAcct.disputed = PreAcct.disputed \cup {Rec.tx}
             /\ PostAcct.total = PreAcct.total
             /\ PostAcct.locked = PreAcct.locked
             /\ PostAcct.transaction_history = PreAcct.transaction_history
       /\ (Applied("Dispute") /\ Rec.tx \in PreAcct.disputed)
          => PostAcct = PreAcct]_vars

\* the entry of a rejected withdrawal is in dispute
C7_Witness ==
    /\ message.typ = "Dispute"
    /\ LastOnKnownId
    /\ LastEntry.typ = "FailedWithdrawal"
    /\ message.tx \in LastAcct.disputed

\* ------------------------------------------------------ C8
\* C8: a Chargeback whose id is not in disputed leaves the whole account
\* unchanged; one whose id is in disputed removes the id from disputed and
\* sets locked.
C8_ChargebackOnlyOnDisputed ==
    [][/\ (Applied("Chargeback") /\ Rec.tx \notin PreAcct.disputed)
          => PostAcct = PreAcct
       /\ (Applied("Chargeback") /\ Rec.tx \in PreAcct.disputed)
          => /\ Rec.tx \notin PostAcct.disputed
             /\ PostAcct.locked]_vars

\* a Chargeback took effect on an account that was not locked before
C8_Witness ==
    /\ message.typ = "Chargeback"
    /\ steps = 3
    /\ LastOnKnownId
    /\ LastAcct.locked
    /\ message.tx \notin LastAcct.disputed
    /\ chargedBack = {<<message.client, message.tx>>}

\* ------------------------------------------------------ C9
\* C9: a Chargeback on a disputed id decreases total by the entry's amount if
\* the entry is a Deposit and increases it by the entry's amount if it is a
\* Withdrawal; the history is not changed.
C9_ChargebackReversesEntry ==
    [][(Applied("Chargeback") /\ Rec.tx \in PreAcct.disputed)
       => /\ KnownId
          /\ PreAcct.transaction_history[Rec.tx].typ = "Deposit"
                => PostAcct.total =
                      PreAcct.total - PreAcct.transaction_history[Rec.tx].amount
          /\ PreAcct.transaction_history[Rec.tx].typ = "Withdrawal"
                => PostAcct.total =
                      PreAcct.total + PreAcct.transaction_history[Rec.tx].amount
          /\ PostAcct.transaction_history = PreAcct.transaction_history]_vars

\* an accepted Withdrawal was charged back: total is back at the deposit
C9_Witness ==
    /\ message.typ = "Chargeback"
    /\ steps = 4
    /\ LastOnKnownId
    /\ LastEntry = [typ |-> "Withdrawal", amount |-> 1]
    /\ <<message.client, message.tx>> \in chargedBack
    /\ LastAcct.total = MaxAmount

\* ------------------------------------------------------ C10
\* C10: a Dispute on an id that has already been charged back leaves the
\* account unchanged, and no id is charged back more than once.
C10_NoDisputeAfterChargeback ==
    [][/\ (Applied("Dispute") /\ <<Rec.client, Rec.tx>> \in chargedBack)
          => PostAcct = PreAcct
       /\ ChargebackTakesEffect(map, Rec)
          => <<Rec.client, Rec.tx>> \notin chargedBack]_vars

\* ------------------------------------------------------ C11
\* C11: once the locked flag of an account is true it is true after every
\* later record, whatever its type.
C11_LockedNeverReverts ==
    [][\A c \in DOMAIN map :
          map[c].locked => (c \in DOMAIN map' /\ map'[c].locked)]_vars

\* a Resolve was applied to an account locked by an earlier Chargeback
C11_Witness ==
    /\ message.typ = "Resolve"
    /\ message.client \in DOMAIN map
    /\ LastAcct.locked
    /\ steps = 4
    /\ chargedBack # {}

\* ------------------------------------------------------ C12
\* C12: in every reachable state disputed is a subset of the keys of history.
C12_DisputedSubsetOfHistory ==
    \A c \in DOMAIN map : map[c].disputed \subseteq DOMAIN map[c].transaction_history

\* two ids are in dispute at once
C12_Witness ==
    \E c \in DOMAIN map :
        /\ Cardinality(map[c].disputed) = 2
        /\ map[c].disputed = DOMAIN map[c].transaction_history

\* ------------------------------------------------------ C13
\* C13: an id that maps to a history entry maps to the same (type, amount)
\* entry in every later state; only Deposit and Withdrawal records add an
\* entry, and its type is Deposit, Withdrawal or FailedWithdrawal.
C13_HistoryAppendOnly ==
    [][/\ \A c \in DOMAIN map :
            /\ c \in DOMAIN map'
            /\ \A t \in DOMAIN map[c].transaction_history :
                  /\ t \in DOMAIN map'[c].transaction_history
                  /\ map'[c].transaction_history[t] = map[c].transaction_history[t]
       /\ \A t \in DOMAIN PostAcct.transaction_history
                   \ DOMAIN PreAcct.transaction_history :
            /\ Rec.typ \in {"Deposit", "Withdrawal"}
            /\ t = Rec.tx
            /\ PostAcct.transaction_history[t].typ
                  \in {"Deposit", "Withdrawal", "FailedWithdrawal"}]_vars

\* a Chargeback took effect on one of two entries and both are still there
C13_Witness ==
    /\ message.typ = "Chargeback"
    /\ <<message.client, message.tx>> \in chargedBack
    /\ LastOnKnownId
    /\ LastEntry.typ = "Deposit"
    /\ Cardinality(DOMAIN LastAcct.transaction_history) = 2

\* ------------------------------------------------------ C14
\* C14: a Resolve takes its id out of disputed, present or not, and leaves
\* total, locked and history unchanged; on an id that is not disputed it
\* leaves the whole account unchanged.
C14_ResolveOnlyClearsDispute ==
    [][/\ Applied("Resolve")
          => /\ PostAcct.disputed = PreAcct.disputed \ {Rec.tx}
             /\ PostAcct.total = PreAcct.total
             /\ PostAcct.locked = PreAcct.locked
             /\ PostAcct.transaction_history = PreAcct.transaction_history
       /\ (Applied("Resolve") /\ Rec.tx \notin PreAcct.disputed)
          => PostAcct = PreAcct]_vars

\* one of two open disputes was resolved, the other is still open
C14_Witness ==
    /\ message.typ = "Resolve"
    /\ steps = 5
    /\ LastOnKnownId
    /\ message.tx \notin LastAcct.disputed
    /\ Cardinality(LastAcct.disputed) = 1
    /\ held(LastAcct) = MaxAmount
    /\ LastAcct.total = MaxAmount + 1

\* ------------------------------------------------------ C15
\* C15: a Dispute, Resolve or Chargeback whose id is not a key of the history
\* changes no field of the account, hence neither held nor available, also
\* while other ids are in dispute.
C15_UnknownReferenceIsNoOp ==
    [][(/\ steps' = steps + 1
        /\ Rec.typ \in {"Dispute", "Resolve", "Chargeback"}
        /\ NewId)
       => /\ PostAcct.total = PreAcct.total
          /\ PostAcct.locked = PreAcct.locked
          /\ PostAcct.transaction_history = PreAcct.transaction_history
          /\ PostAcct.disputed = PreAcct.disputed
          /\ held(PostAcct) = held(PreAcct)
          /\ available(PostAcct) = available(PreAcct)]_vars

\* a Dispute named an id not in the history while another id is in dispute
C15_Witness ==
    /\ message.typ = "Dispute"
    /\ message.client \in DOMAIN map
    /\ message.tx \notin DOMAIN LastAcct.transaction_history
    /\ LastAcct.disputed # {}
    /\ held(LastAcct) = MaxAmount

\* ------------------------------------------------------ C16
\* the ids of a history whose entry has the type typ
IdsOfType(h, typ) == {t \in DOMAIN h : h[t].typ = typ}

\* C16: as long as only Deposit and Withdrawal records (with amounts) have
\* been applied, total is the exact sum of the deposit amounts minus the sum
\* of the amounts of the accepted withdrawals; rejected withdrawals contribute
\* nothing.  Stated for every state no Chargeback has acted on, which covers
\* those sequences: each of their records with a new id is in the history.
C16_TotalIsExactSum ==
    \A c \in DOMAIN map :
        (\A t \in TxIds : <<c, t>> \notin chargedBack)
        => map[c].total =
              SumAmounts(map[c].transaction_history,
                         IdsOfType(map[c].transaction_history, "Deposit"))
              - SumAmounts(map[c].transaction_history,
                           IdsOfType(map[c].transaction_history, "Withdrawal"))

\* two records were applied, a rejected Withdrawal and a Deposit: total is
\* the deposit
C16_Witness ==
    /\ steps = 2
    /\ message.typ = "Deposit"
    /\ LastOnKnownId
    /\ LastEntry = [typ |-> "Deposit", amount |-> MaxAmount]
    /\ IdsOfType(LastAcct.transaction_history, "FailedWithdrawal") # {}
    /\ LastAcct.total = MaxAmount

\* ------------------------------------------------------ C17
\* the account after Deposit(id, a), Dispute(id) and after a following
\* Chargeback(id), applied to acct with no record in between
DepositOf(c, id, a) == [typ |-> "Deposit", client |-> c, tx |-> id, amount |-> Some(a)]
ReferenceOf(typ, c, id) == [typ |-> typ, client |-> c, tx |-> id, amount |-> None]
AfterDepositDispute(acct, id, a) ==
    ClientAccountUpdate(
        ClientAccountUpdate(acct, DepositOf(acct.id, id, a)),
        ReferenceOf("Dispute", acct.id, id))
AfterDepositDisputeChargeback(acct, id, a) ==
    ClientAccountUpdate(AfterDepositDispute(acct, id, a),
                        ReferenceOf("Chargeback", acct.id, id))

\* C17: on a new account, Deposit(id, a) then Dispute(id) gives available = 0,
\* held = a, total = a, and a following Chargeback(id) gives total = 0,
\* held = 0, available = 0, locked; from any account, Deposit, Dispute and
\* Chargeback of one new id in a row bring total back to its value before the
\* deposit.
C17_DepositDisputeChargebackRoundTrip ==
    \A c \in ClientIds : \A id \in TxIds : \A a \in Amounts :
        /\ LET d == AfterDepositDispute(ClientAccountNew(c), id, a)
               r == AfterDepositDisputeChargeback(ClientAccountNew(c), id, a)
           IN  /\ available(d) = 0 /\ held(d) = a /\ d.total = a
               /\ r.total = 0 /\ held(r) = 0 /\ available(r) = 0 /\ r.locked
        /\ id \notin DOMAIN AccountOf(map, c).transaction_history
           => AfterDepositDisputeChargeback(AccountOf(map, c), id, a).total
                 = AccountOf(map, c).total

\* Deposit, Dispute and Chargeback of one id were applied to an account that
\* holds another deposit: total is that other deposit
C17_Witness ==
    /\ steps = 4
    /\ message.typ = "Chargeback"
    /\ chargedBack = {<<message.client, message.tx>>}
    /\ LastOnKnownId
    /\ LastEntry.typ = "Deposit"
    /\ LastAcct.disputed = {}
    /\ LastAcct.locked
    /\ Cardinality(IdsOfType(LastAcct.transaction_history, "Deposit")) = 2
    /\ LastAcct.total = MaxAmount

\* ------------------------------------------------------ C18
\* C18: a Chargeback on a disputed id whose entry is a FailedWithdrawal
\* leaves total unchanged.
C18_FailedWithdrawalChargebackKeepsTotal ==
    [][(/\ Applied("Chargeback")
        /\ Rec.tx \in PreAcct.disputed
        /\ KnownId
        /\ PreAcct.transaction_history[Rec.tx].typ = "FailedWithdrawal")
       => PostAcct.total = PreAcct.total]_vars

\* the entry of a rejected withdrawal was charged back on an account with
\* funds
C18_Witness ==
    /\ message.typ = "Chargeback"
    /\ <<message.client, message.tx>> \in chargedBack
    /\ LastOnKnownId
    /\ LastEntry.typ = "FailedWithdrawal"
    /\ LastAcct.total = MaxAmount

\* ------------------------------------------------------ C19
\* C19: a Chargeback on an id whose entry is a FailedWithdrawal changes
\* nothing but disputed: total, locked and history are unchanged.
C19_FailedWithdrawalChargebackDoesNotLock ==
    [][(/\ Applied("Chargeback")
        /\ KnownId
        /\ PreAcct.transaction_history[Rec.tx].typ = "FailedWithdrawal")
       => /\ PostAcct.total = PreAcct.total
          /\ PostAcct.locked = PreAcct.locked
          /\ PostAcct.transaction_history = PreAcct.transaction_history]_vars

C28_UnlockedTotalNonNegative ==
    \A c \in DOMAIN map : ~map[c].locked => map[c].total >= 0

C28_NegativeOnlyByChargebackOfWithdrawnDeposit ==
    /\ []C28_UnlockedTotalNonNegative
    /\ [][(steps' = steps + 1 /\ PreAcct.total >= 0 /\ PostAcct.total < 0) =>
              /\ Rec.typ = "Chargeback"
              /\ KnownId
              /\ PreAcct.transaction_history[Rec.tx].typ = "Deposit"
              /\ IdsOfType(PreAcct.transaction_history, "Withdrawal") # {}
              /\ PostAcct.locked]_vars

\* ------------------------------------------------------ C29
\* C29: locked gates nothing: whatever record is applied, the total, history
\* and disputed of the account afterwards are those the same record gives
\* on the same account with locked = FALSE, and those it gives with
\* locked = TRUE.
C29_LockedDoesNotGate ==
    [][steps' = steps + 1 =>
         LET u == ClientAccountUpdate([PreAcct EXCEPT !.locked = FALSE], Rec)
             l == ClientAccountUpdate([PreAcct EXCEPT !.locked = TRUE], Rec)
         IN  /\ PostAcct.total = u.total
             /\ PostAcct.transaction_history = u.transaction_history
             /\ PostAcct.disputed = u.disputed
             /\ PostAcct.total = l.total
             /\ PostAcct.transaction_history = l.transaction_history
             /\ PostAcct.disputed = l.disputed]_vars

\* a locked account has just accepted a Deposit: three records locked it
\* (entry, Dispute, Chargeback), the fourth is a Deposit under another id
C29_Witness ==
    /\ steps = 4
    /\ message.typ = "Deposit"
    /\ message.client \in DOMAIN map
    /\ LastAcct.locked
    /\ chargedBack # {}
    /\ <<message.client, message.tx>> \notin chargedBack
    /\ message.tx \in DOMAIN LastAcct.transaction_history
    /\ LastEntry.typ = "Deposit"

\* ------------------------------------------------------ C30
\* C30: a Deposit or Withdrawal without amount leaves the account as it was
\* and, when its id was new, leaves it new: every later Deposit or
\* Withdrawal with that id and an amount gets its entry in the history.
C30_NoAmountIsNoOp ==
    [][(AppliedDepositOrWithdrawal /\ ~IsSome(Rec.amount)) =>
          /\ PostAcct = PreAcct
          /\ NewId =>
               \A later \in Transaction :
                   (/\ later.typ \in {"Deposit", "Withdrawal"}
                    /\ later.client = Rec.client
                    /\ later.tx = Rec.tx
                    /\ IsSome(later.amount)) =>
                       LET a == ClientAccountUpdate(PostAcct, later)
                       IN  /\ Rec.tx \in DOMAIN a.transaction_history
                           /\ a.transaction_history[Rec.tx].amount = Unwrap(later.amount)
                           /\ a = ClientAccountUpdate(PreAcct, later)]_vars

\* a Deposit or Withdrawal without amount, under a new id, was applied last
\* to an account that already has history
C30_Witness ==
    /\ message.typ \in {"Deposit", "Withdrawal"}
    /\ ~IsSome(message.amount)
    /\ message.client \in DOMAIN map
    /\ LastAcct.transaction_history # << >>
    /\ message.tx \notin DOMAIN LastAcct.transaction_history

\* ------------------------------------------------------ C21
\* C21: the book has one account per client id that appeared: applying a
\* record adds its client id to the map and no other, every account is
\* stored under its own id, an account created by the record is the record
\* applied to (total 0, unlocked, empty history, empty disputed), also when
\* the record does nothing, and an account that existed is the record
\* applied to the stored account, with its id and every history entry kept.
C21_OneLedgerPerClient ==
    [][steps' = steps + 1 =>
         /\ DOMAIN map' = DOMAIN map \cup {Rec.client}
         /\ \A c \in DOMAIN map' : map'[c].id = c
         /\ Rec.client \notin DOMAIN map =>
              LET fresh == [id |-> Rec.client, total |-> 0, locked |-> FALSE,
                            transaction_history |-> << >>, disputed |-> {}]
              IN  PostAcct = ClientAccountUpdate(fresh, Rec)
         /\ Rec.client \in DOMAIN map =>
              /\ PostAcct = ClientAccountUpdate(map[Rec.client], Rec)
              /\ \A t \in DOMAIN map[Rec.client].transaction_history :
                     /\ t \in DOMAIN PostAcct.transaction_history
                     /\ PostAcct.transaction_history[t].amount
                          = map[Rec.client].transaction_history[t].amount]_vars

\* client 2's account was created by a record that does nothing, client 1's
\* account took two records
C21_Witness ==
    /\ steps = 3
    /\ DOMAIN map = {1, 2}
    /\ map[2] = ClientAccountNew(2)
    /\ Cardinality(DOMAIN map[1].transaction_history) = 2

\* ------------------------------------------------------ C22
\* C22: a record of client c changes the account of c only; a Dispute,
\* Resolve or Chargeback whose id is not in the history of c changes no
\* account's total, held, available or locked.
C22_NoCrossClientEffect ==
    [][steps' = steps + 1 =>
         /\ \A c \in DOMAIN map \ {Rec.client} : map'[c] = map[c]
         /\ (Rec.typ \in ReferenceTypes /\ NewId) =>
              \A c \in DOMAIN map' :
                  /\ map'[c].total = AccountOf(map, c).total
                  /\ held(map'[c]) = held(AccountOf(map, c))
                  /\ available(map'[c]) = available(AccountOf(map, c))
                  /\ map'[c].locked = AccountOf(map, c).locked]_vars

\* a Dispute under client 2 named an id that only client 1's history holds
C22_Witness ==
    /\ message.typ = "Dispute"
    /\ message.client = 2
    /\ DOMAIN map = {1, 2}
    /\ message.tx \notin DOMAIN map[2].transaction_history
    /\ message.tx \in DOMAIN map[1].transaction_history
    /\ map[1].disputed = {}
    /\ map[1].total > 0

\* ------------------------------------------------------ C23
\* C23: write_csv writes the header and, for every account of the book,
\* exactly one row (id, available, held, total, locked) with the values of
\* the account at that time, available = max(total - held, 0) and held = sum
\* of the disputed Deposit amounts; it writes no other row.
C23_ExportRows ==
    [][exports' = exports + 1 =>
         /\ output'.header = <<"id", "available", "held", "total", "locked">>
         /\ output'.rows =
              {<<c, SpecAvailable(map[c]), SpecHeld(map[c]), map[c].total, map[c].locked>> :
                  c \in DOMAIN map}
         /\ \A c \in DOMAIN map :
                Cardinality({r \in output'.rows : r[1] = c}) = 1]_vars

\* two accounts were exported, one of them with an open dispute
C23_Witness ==
    /\ exports = 1
    /\ Cardinality(output.rows) = 2
    /\ \E r \in output.rows : r[3] > 0 /\ r[2] = r[4] - r[3]

\* ------------------------------------------------------ C24
\* C24: at every point of every interleaving, the records applied, then
\* those in the channel, then the one being sent, are the well-formed rows
\* read so far in file order, so the records applied are a prefix of them;
\* and reading a malformed row leaves the producer in its loop and the
\* channel, the record being sent and the book as they were.
InFlight == IF ppc = "send" THEN <<pending>> ELSE << >>

C24_AppliedIsPrefix ==
    /\ applied \o queue \o InFlight = WellFormed(source)
    /\ Len(applied) <= Len(WellFormed(source))
    /\ applied = SubSeq(WellFormed(source), 1, Len(applied))

C24_OrderPreserved ==
    /\ []C24_AppliedIsPrefix
    /\ [][(Len(source') = Len(source) + 1 /\ source'[Len(source')] = Malformed) =>
              /\ ppc' = "read"
              /\ UNCHANGED <<queue, pending, applied, map, cpc>>]_vars

\* two different records were applied in file order, with a malformed row
\* between them in the file
C24_Witness ==
    /\ Len(source) = 3
    /\ source[2] = Malformed
    /\ source[1] # source[3]
    /\ applied = <<source[1], source[3]>>

\* ------------------------------------------------------ C25
\* C25: the channel never holds more than its capacity; while it holds that
\* many, the producer stays at its send with the same record; while it is
\* empty and the producer has not finished, the consumer stays at its
\* receive and applies nothing.
C25_Backpressure ==
    /\ [](Len(queue) <= MaxQueue)
    /\ [][(ppc = "send" /\ Len(queue) = MaxQueue) =>
              /\ ppc' = "send"
              /\ pending' = pending
              /\ Len(queue') <= Len(queue)]_vars
    /\ [][(cpc = "recv" /\ queue = << >> /\ ppc \notin {"done", "panicked"}) =>
              /\ cpc' = "recv"
              /\ applied' = applied
              /\ map' = map]_vars

\* the channel is full and the producer is waiting with another record
C25_Witness ==
    /\ Len(queue) = MaxQueue
    /\ ppc = "send"
    /\ cpc = "recv"

\* ------------------------------------------------------ C26
\* C26: when the producer could not open the source, main does not write
\* the snapshot and does not return as after a run over an empty source.
\* Violated: the panic ends the producer task only; main's recv returns
\* None, write_csv writes the header and main returns normally.
C26_UnreadableSourceIsFatal ==
    ppc = "panicked" => (exports = 0 /\ cpc # "exited")

AfterDispute(acct, id) ==
    ClientAccountUpdate(acct, ReferenceOf("Dispute", acct.id, id))
AfterDisputeResolve(acct, id) ==
    ClientAccountUpdate(AfterDispute(acct, id), ReferenceOf("Resolve", acct.id, id))

\* C31: on every account and every id that is in its history and not
\* disputed, Dispute(id) then Resolve(id) gives back the very same account
\* (total, locked, history, disputed, so held and available too), and a
\* Dispute(id) after them gives the account, and the held, the first
\* Dispute(id) gave.
C31_DisputeResolveRoundTrip ==
    \A c \in DOMAIN map :
        \A id \in DOMAIN map[c].transaction_history \ map[c].disputed :
            LET r == AfterDisputeResolve(map[c], id)
            IN  /\ r = map[c]
                /\ held(r) = held(map[c])
                /\ available(r) = available(map[c])
                /\ id \in AfterDispute(map[c], id).disputed
                /\ AfterDispute(r, id) = AfterDispute(map[c], id)
                /\ held(AfterDispute(r, id)) = held(AfterDispute(map[c], id))

\* a Resolve has just cleared the dispute of a deposit while another id is
\* still disputed, and disputing the deposit again would hold its amount
C31_Witness ==
    /\ message.typ = "Resolve"
    /\ LastOnKnownId
    /\ LastEntry.typ = "Deposit"
    /\ message.tx \notin LastAcct.disputed
    /\ LastAcct.disputed # {}
    /\ held(AfterDispute(LastAcct, message.tx)) = held(LastAcct) + LastEntry.amount
    /\ LastEntry.amount > 0
    /\ AfterDisputeResolve(LastAcct, message.tx) = LastAcct

\* ------------------------------------------------------ C32
\* the book after applying a sequence of records one after the other
RECURSIVE ApplyAll(_)
ApplyAll(records) ==
    IF records = << >> THEN ClientAccountsNew
    ELSE ClientAccountsUpdate(ApplyAll(SubSeq(records, 1, Len(records) - 1)),
                              records[Len(records)])

\* C32: in every interleaving, the book is the records applied so far
\* applied one after the other, and what write_csv wrote is the header and
\* the rows of the book that the well-formed rows of the file, applied one
\* after the other with no channel, give.
C32_ExportDeterminedBySource ==
    /\ map = ApplyAll(applied)
    /\ exports = 1 =>
         /\ output = WriteCsv(ApplyAll(WellFormed(source)))
         /\ output.rows =
              {<<c, SpecAvailable(ApplyAll(WellFormed(source))[c]),
                    SpecHeld(ApplyAll(WellFormed(source))[c]),
                    ApplyAll(WellFormed(source))[c].total,
                    ApplyAll(WellFormed(source))[c].locked>> :
                  c \in DOMAIN ApplyAll(WellFormed(source))}

\* main returned after a file with a deposit, its dispute and its chargeback:
\* the exported row is locked
C32_Witness ==
    /\ cpc = "exited"
    /\ ppc = "done"
    /\ exports = 1
    /\ Len(WellFormed(source)) = 3
    /\ \E r \in output.rows : r[5] = TRUE /\ r[4] = 0

====
